---------------------------- MODULE Spec2Model ----------------------------
(***************************************************************************)
(* RobertaEmbeddings (src/roberta/embeddings.rs): construction, the two    *)
(* position-id derivation schemes and forward_t.                           *)
(*                                                                         *)
(* Integer tensors of rank 2 are sequences of rows, rank 1 tensors are      *)
(* sequences.  Floating point tensors are kept symbolic: an element of the  *)
(* (batch, seq) grid is a term naming the table rows that were summed, the  *)
(* normalisation applied and the dropout mask drawn for its hidden_size     *)
(* components.                                                             *)
(***************************************************************************)
EXTENDS Integers, Sequences, FiniteSets

VARIABLES
    composer,   \* the RobertaEmbeddings value built by new(config)
    pc,         \* "idle": no call yet / result consumed; "done": forward_t returned
    call,       \* the arguments of the last forward_t call
    run,        \* what the last forward_t call did and returned
    repeated,   \* the last call was a repetition of the one before, same arguments
    same        \* ... and it returned exactly what the one before returned

vars == <<composer, pc, call, run, repeated, same>>

---------------------------------------------------------------------------
(* Bounds of the model.                                                    *)

\* input_ids batches checked alone have at most MaxCells = batch * seq cells
MaxCells == 5
\* input_embeds shapes: batch in 1..MaxBatch, seq in 1..MaxSeq
MaxBatch == 4
MaxSeq == 3
\* calls combining the optional arguments have at most MaxComboCells cells
MaxComboCells == 2

\* token ids drawn for input_ids (1 is the padding token)
TokenIds == {1, 5, 7, 9}
\* token ids drawn for the calls that combine optional arguments (10 is outside
\* the vocabulary of Configs)
ComboTokenIds == {1, 5, 10}
\* values filling an explicit position_ids argument (4 is outside the smaller
\* position table of Configs)
ExplicitPositions == {1, 4}
\* values filling an explicit token_type_ids argument (2 is outside the token
\* type table of Configs)
ExplicitTokenTypes == {0, 2}

\* BertConfig values drawn at construction
Configs ==
    [ vocab_size : {10},
      max_position_embeddings : {4, 8},
      type_vocab_size : {2},
      hidden_size : {1, 2},
      hidden_dropout_prob : {0, 10} ]     \* in percent

---------------------------------------------------------------------------
(* Option<T>                                                               *)

None == [some |-> FALSE]
Some(v) == [some |-> TRUE, value |-> v]

(* Results of tensor operations that the numeric runtime may reject.       *)
Fail == [ok |-> FALSE]
Done(v) == [ok |-> TRUE, value |-> v]

---------------------------------------------------------------------------
(* Integer tensor operations used by the position-id schemes.              *)

\* Tensor::size of a rank-2 tensor
size(x) == <<Len(x), Len(x[1])>>

\* x.ne(s): elementwise x != s
ne(x, s) == [i \in 1..Len(x) |-> [j \in 1..Len(x[i]) |-> x[i][j] # s]]

\* to_kind(Kind::Int64) of a boolean tensor
to_kind_int64(m) ==
    [i \in 1..Len(m) |-> [j \in 1..Len(m[i]) |-> IF m[i][j] THEN 1 ELSE 0]]

\* running sum of one row
cumsum_row(r) ==
    LET cs[j \in 0..Len(r)] == IF j = 0 THEN 0 ELSE cs[j - 1] + r[j]
    IN  [j \in 1..Len(r) |-> cs[j]]

\* mask.cumsum(1, Kind::Int64): running sum along dimension 1 (the sequence axis)
cumsum1(m) == [i \in 1..Len(m) |-> cumsum_row(m[i])]

\* elementwise product of two tensors of the same shape
mul(a, b) == [i \in 1..Len(a) |-> [j \in 1..Len(a[i]) |-> a[i][j] * b[i][j]]]

\* tensor + scalar
add_scalar(a, s) == [i \in 1..Len(a) |-> [j \in 1..Len(a[i]) |-> a[i][j] + s]]

\* Tensor::arange1(start, end): start, start+1, ..., end-1; rejected when end < start
arange1(start, end) ==
    IF end < start THEN Fail
    ELSE Done([k \in 1..(end - start) |-> start + k - 1])

\* t.unsqueeze(0).expand(&[rows, cols]) of a rank-1 tensor t: the (1, Len(t)) tensor
\* is repeated along dimension 0; dimension 1 must already be cols, or be 1
unsqueeze_expand(t, rows, cols) ==
    IF Len(t) = cols THEN Done([i \in 1..rows |-> t])
    ELSE IF Len(t) = 1 THEN Done([i \in 1..rows |-> [j \in 1..cols |-> t[1]]])
    ELSE Fail

\* Tensor::zeros(&shape, Int64)
zeros(shape) == [i \in 1..shape[1] |-> [j \in 1..shape[2] |-> 0]]

---------------------------------------------------------------------------
(* The two derivation schemes.                                             *)

\* without the multiplication by the mask
position_ids_unmasked(self, x) ==
    LET mask == to_kind_int64(ne(x, self.padding_index))
    IN  add_scalar(cumsum1(mask), self.padding_index)

\* counting from one past the first slot
position_ids_off_by_one(self, x) ==
    LET mask == to_kind_int64(ne(x, self.padding_index))
    IN  add_scalar(mul(cumsum1(mask), mask), self.padding_index + 1)

create_position_ids_from_input_ids(self, x) ==
    LET mask == to_kind_int64(ne(x, self.padding_index))
    IN  add_scalar(mul(cumsum1(mask), mask), self.padding_index)

\* x is the shape of the embeddings tensor, (batch, seq, hidden)
create_position_ids_from_embeddings(self, x) ==
    LET input_shape == <<x[1], x[2]>>
        position_ids == arange1(self.padding_index + 1, input_shape[1])
    IN  IF position_ids.ok
        THEN unsqueeze_expand(position_ids.value, input_shape[1], input_shape[2])
        ELSE Fail

---------------------------------------------------------------------------
(* Construction.                                                           *)

\* EmbeddingConfig { ..Default::default() } of the tensor library: no padding row
EmbeddingConfigDefault == [padding_idx |-> -1]

\* nn::embedding(path / name, num_embeddings, embedding_dim, config)
embedding(name, num_embeddings, embedding_dim, config) ==
    [ name |-> name,
      num_embeddings |-> num_embeddings,
      embedding_dim |-> embedding_dim,
      padding_idx |-> config.padding_idx ]

\* RobertaEmbeddings::new(p, config)
new(config) ==
    LET embedding_config == [EmbeddingConfigDefault EXCEPT !.padding_idx = 1]
    IN  [ word_embeddings |->
              embedding("word_embeddings", config.vocab_size,
                        config.hidden_size, embedding_config),
          position_embeddings |->
              embedding("position_embeddings", config.max_position_embeddings,
                        config.hidden_size, EmbeddingConfigDefault),
          token_type_embeddings |->
              embedding("token_type_embeddings", config.type_vocab_size,
                        config.hidden_size, EmbeddingConfigDefault),
          layer_norm |->
              [ name |-> "LayerNorm",
                normalized_shape |-> <<config.hidden_size>>,
                eps |-> "1e-12" ],
          dropout |-> [dropout_prob |-> config.hidden_dropout_prob],
          padding_index |-> 1 ]

---------------------------------------------------------------------------
(* Floating point tensors of rank 3, symbolic: [hidden |-> h, data |-> d]   *)
(* where d is the (batch, seq) grid of terms, each standing for a vector of *)
(* h components.                                                           *)

\* ids.apply(&table): row lookup; an index outside 0..num_embeddings-1 is
\* rejected by the numeric runtime
embedding_forward(table, ids) ==
    IF \A i \in 1..Len(ids) : \A j \in 1..Len(ids[i]) :
           ids[i][j] >= 0 /\ ids[i][j] < table.num_embeddings
    THEN Done([ hidden |-> table.embedding_dim,
                data |-> [i \in 1..Len(ids) |-> [j \in 1..Len(ids[i]) |->
                             [table |-> table.name, row |-> <<ids[i][j]>>]]] ])
    ELSE Fail

\* embeds.copy() of a caller-supplied tensor of shape x = (batch, seq, hidden)
copy(x) ==
    [ hidden |-> x[3],
      data |-> [i \in 1..x[1] |-> [j \in 1..x[2] |->
                   [table |-> "input_embeds", row |-> <<i, j>>]]] ]

\* broadcasting of one dimension
broadcast_dim(m, n) ==
    IF m = n THEN m ELSE IF m = 1 THEN n ELSE IF n = 1 THEN m ELSE -1

\* a + b with broadcasting; rejected when a dimension cannot be broadcast
add(a, b) ==
    LET rows == broadcast_dim(Len(a.data), Len(b.data))
        cols == broadcast_dim(Len(a.data[1]), Len(b.data[1]))
        hidden == broadcast_dim(a.hidden, b.hidden)
        at(t, i, j) == t.data[IF Len(t.data) = 1 THEN 1 ELSE i]
                             [IF Len(t.data[1]) = 1 THEN 1 ELSE j]
    IN  IF rows = -1 \/ cols = -1 \/ hidden = -1 THEN Fail
        ELSE Done([ hidden |-> hidden,
                    data |-> [i \in 1..rows |-> [j \in 1..cols |->
                                 [sum |-> <<at(a, i, j), at(b, i, j)>>]]] ])

\* x.apply(&layer_norm): normalisation over the last dimension, which must
\* be the normalized shape
layer_norm_forward(ln, x) ==
    IF <<x.hidden>> # ln.normalized_shape THEN Fail
    ELSE Done([ hidden |-> x.hidden,
                data |-> [i \in 1..Len(x.data) |-> [j \in 1..Len(x.data[i]) |->
                             [layer_norm |-> x.data[i][j], eps |-> ln.eps]]] ])

\* Dropout::forward_t(x, train): the tensors it can return.  In training mode
\* with a positive probability every component is independently zeroed or
\* kept and rescaled; otherwise x is returned as it is.
Dropout_forward_t(dropout, x, train) ==
    IF train /\ dropout.dropout_prob > 0
    THEN { [ hidden |-> x.hidden,
             data |-> [i \in 1..Len(x.data) |-> [j \in 1..Len(x.data[i]) |->
                          [ dropout |-> x.data[i][j],
                            keep |-> m[i][j],
                            dropout_prob |-> dropout.dropout_prob ]]] ] :
           m \in [1..Len(x.data) -> [1..Len(x.data[1]) -> [1..x.hidden -> BOOLEAN]]] }
    ELSE {x}

\* Tensor::size of a rank-3 tensor
size3(x) == <<Len(x.data), Len(x.data[1]), x.hidden>>

---------------------------------------------------------------------------
(* forward_t.                                                              *)

\* the message of the error returned when input_ids and input_embeds are both set
BothSetMessage == "Only one of input ids or input embeddings may be set"

\* a message of its own for the second case
NoneSetMessageOfItsOwn == "One of input ids or input embeddings must be set"

\* the message of the error returned when neither is set
NoneSetMessage == "Only one of input ids or input embeddings may be set"

\* no output tensor / no id tensor
NoOutput == [hidden |-> 0, data |-> <<>>]
NoIds == <<>>

\* What one call did: its result ("Ok", "Err", or "Panic" when the numeric
\* runtime rejected an operation), the error message, the output tensor, the
\* tables it looked rows up in, the rule that gave the position ids, the
\* position ids and token type ids handed to the lookups, the resolved shape.
Outcome(result, message, output, reads, scheme, position_ids, token_type_ids, shape) ==
    [ result |-> result, message |-> message, output |-> output,
      reads |-> reads, scheme |-> scheme, position_ids |-> position_ids,
      token_type_ids |-> token_type_ids, input_shape |-> shape ]

Err(message) == Outcome("Err", message, NoOutput, {}, "none", NoIds, NoIds, <<>>)

\* both set: input_ids wins
resolve_input_prefer_ids(self, input_ids, input_embeds, train) ==
    IF input_ids.some
    THEN [ err |-> FALSE, message |-> "", reads |-> {"word_embeddings"},
           input_embeddings |-> embedding_forward(self.word_embeddings, input_ids.value),
           input_shape |-> size(input_ids.value) ]
    ELSE IF input_embeds.some
         THEN [ err |-> FALSE, message |-> "", reads |-> {},
                input_embeddings |-> Done(copy(input_embeds.value)),
                input_shape |-> <<input_embeds.value[1], input_embeds.value[2]>> ]
         ELSE [ err |-> TRUE, message |-> NoneSetMessage, reads |-> {},
                input_embeddings |-> Fail, input_shape |-> <<>> ]

\* let (input_embeddings, input_shape) = match &input_ids { ... }
resolve_input(self, input_ids, input_embeds, train) ==
    IF input_ids.some
    THEN IF input_embeds.some
         THEN [ err |-> TRUE, message |-> BothSetMessage, reads |-> {},
                input_embeddings |-> Fail, input_shape |-> <<>> ]
         ELSE [ err |-> FALSE, message |-> "", reads |-> {"word_embeddings"},
                input_embeddings |-> embedding_forward(self.word_embeddings, input_ids.value),
                input_shape |-> size(input_ids.value) ]
    ELSE IF input_embeds.some
         THEN [ err |-> FALSE, message |-> "", reads |-> {},
                input_embeddings |-> Done(copy(input_embeds.value)),
                input_shape |-> <<input_embeds.value[1], input_embeds.value[2]>> ]
         ELSE [ err |-> TRUE, message |-> NoneSetMessage, reads |-> {},
                input_embeddings |-> Fail, input_shape |-> <<>> ]

\* the explicit argument is ignored
resolve_position_ids_always_derived(self, position_ids, input_ids, input_embeds) ==
    IF input_ids.some
    THEN [ scheme |-> "create_position_ids_from_input_ids",
           ids |-> Done(create_position_ids_from_input_ids(self, input_ids.value)) ]
    ELSE [ scheme |-> "create_position_ids_from_embeddings",
           ids |-> create_position_ids_from_embeddings(self, input_embeds.value) ]

\* let position_ids = match position_ids { ... }
resolve_position_ids(self, position_ids, input_ids, input_embeds) ==
    IF position_ids.some
    THEN [ scheme |-> "explicit", ids |-> Done(position_ids.value) ]
    ELSE IF input_ids.some
         THEN [ scheme |-> "create_position_ids_from_input_ids",
                ids |-> Done(create_position_ids_from_input_ids(self, input_ids.value)) ]
         ELSE [ scheme |-> "create_position_ids_from_embeddings",
                ids |-> create_position_ids_from_embeddings(self, input_embeds.value) ]

\* the explicit argument is ignored
resolve_token_type_ids_always_zeros(token_type_ids, input_shape) ==
    zeros(input_shape)

\* let token_type_ids = match token_type_ids { ... }
resolve_token_type_ids(token_type_ids, input_shape) ==
    IF token_type_ids.some THEN token_type_ids.value ELSE zeros(input_shape)

\* the train flag is not passed on
apply_dropout_always_training(self, x, train) ==
    Dropout_forward_t(self.dropout, x, TRUE)

\* .apply_t(&self.dropout, train)
apply_dropout(self, x, train) ==
    Dropout_forward_t(self.dropout, x, train)

\* The outcomes forward_t can have on these arguments.
forward_t(self, input_ids, token_type_ids, position_ids, input_embeds, train) ==
    LET input == resolve_input(self, input_ids, input_embeds, train)
    IN
    IF input.err THEN { Err(input.message) }
    ELSE IF ~input.input_embeddings.ok
    THEN { Outcome("Panic", "", NoOutput, input.reads, "none", NoIds, NoIds, <<>>) }
    ELSE
    LET input_embeddings == input.input_embeddings.value
        input_shape == input.input_shape
        pos == resolve_position_ids(self, position_ids, input_ids, input_embeds)
    IN
    IF ~pos.ids.ok
    THEN { Outcome("Panic", "", NoOutput, input.reads, pos.scheme, NoIds, NoIds,
                   input_shape) }
    ELSE
    LET token_type == resolve_token_type_ids(token_type_ids, input_shape)
        position_embeddings == embedding_forward(self.position_embeddings, pos.ids.value)
        token_type_embeddings == embedding_forward(self.token_type_embeddings, token_type)
        reads == input.reads \cup {"position_embeddings"}
        Panic(rd) == { Outcome("Panic", "", NoOutput, rd, pos.scheme, pos.ids.value,
                               token_type, input_shape) }
    IN
    IF ~position_embeddings.ok THEN Panic(reads)
    ELSE IF ~token_type_embeddings.ok THEN Panic(reads \cup {"token_type_embeddings"})
    ELSE
    LET all_reads == reads \cup {"token_type_embeddings"}
        sum1 == add(input_embeddings, position_embeddings.value)
        sum2 == IF sum1.ok THEN add(sum1.value, token_type_embeddings.value) ELSE Fail
        normed == IF sum2.ok THEN layer_norm_forward(self.layer_norm, sum2.value) ELSE Fail
    IN
    IF ~normed.ok THEN Panic(all_reads)
    ELSE { Outcome("Ok", "", out, all_reads, pos.scheme, pos.ids.value, token_type,
                   input_shape) :
           out \in apply_dropout(self, normed.value, train) }

---------------------------------------------------------------------------
(* The calls made on the composer.                                         *)

\* the (batch, seq) shapes with at most n cells
Shapes(n) == { sh \in (1..n) \X (1..n) : sh[1] * sh[2] <= n }

\* the integer tensors of shape sh with entries in vals
Tensors(sh, vals) == [1..sh[1] -> [1..sh[2] -> vals]]

Args(input_ids, token_type_ids, position_ids, input_embeds, train) ==
    [ input_ids |-> input_ids, token_type_ids |-> token_type_ids,
      position_ids |-> position_ids, input_embeds |-> input_embeds,
      train |-> train ]

\* token ids alone, in evaluation mode
IdsOnlyCalls ==
    { Args(Some(x), None, None, None, FALSE) :
        x \in UNION { Tensors(sh, TokenIds) : sh \in Shapes(MaxCells) } }

\* precomputed vectors alone, in evaluation mode; the tensor is given by its shape
EmbedsOnlyCalls(self) ==
    { Args(None, None, None, Some(<<sh[1], sh[2], self.layer_norm.normalized_shape[1]>>),
           FALSE) :
        sh \in (1..MaxBatch) \X (1..MaxSeq) }

\* explicit position ids for an input of shape sh: one value everywhere, or
\* 0, 1, 2, ... along every row, or that as a single row, or (for rows of two
\* or more) that with one column too many
ExplicitPositionIds(sh) ==
    { [i \in 1..sh[1] |-> [j \in 1..sh[2] |-> v]] : v \in ExplicitPositions }
    \cup { [i \in 1..sh[1] |-> [j \in 1..sh[2] |-> j - 1]] }
    \cup { [i \in 1..1 |-> [j \in 1..sh[2] |-> j - 1]] }
    \cup { [i \in 1..sh[1] |-> [j \in 1..(sh[2] + 1) |-> j - 1]] : k \in 2..sh[2] }

\* explicit token type ids of shape sh: one value everywhere, or alternating
\* along every row
ExplicitTokenTypeIds(sh) ==
    { [i \in 1..sh[1] |-> [j \in 1..sh[2] |-> v]] : v \in ExplicitTokenTypes }
    \cup { [i \in 1..sh[1] |-> [j \in 1..sh[2] |-> j % 2]] }

\* every combination of present and absent arguments, on small shapes
ComboCalls(self) ==
    UNION { { Args(ids, tt, pos, emb, train) :
                ids \in {None} \cup { Some(x) : x \in Tensors(sh, ComboTokenIds) },
                tt \in {None} \cup { Some(x) : x \in ExplicitTokenTypeIds(sh) },
                pos \in {None} \cup { Some(x) : x \in ExplicitPositionIds(sh) },
                emb \in {None,
                         Some(<<sh[1], sh[2], self.layer_norm.normalized_shape[1]>>)},
                train \in BOOLEAN } :
            sh \in Shapes(MaxComboCells) }

Calls(self) == IdsOnlyCalls \cup EmbedsOnlyCalls(self) \cup ComboCalls(self)

NoCall == Args(None, None, None, None, FALSE)
NoRun == Outcome("none", "", NoOutput, {}, "none", NoIds, NoIds, <<>>)

Init ==
    /\ composer \in { new(config) : config \in Configs }
    /\ pc = "idle"
    /\ call = NoCall
    /\ run = NoRun
    /\ repeated = FALSE
    /\ same = FALSE

\* a caller invokes forward_t (on an idle composer, see Next)
Call(a) ==
    /\ run' \in forward_t(composer, a.input_ids, a.token_type_ids, a.position_ids,
                          a.input_embeds, a.train)
    /\ call' = a
    /\ pc' = "done"
    /\ repeated' = FALSE
    /\ same' = FALSE
    /\ UNCHANGED composer

\* the caller invokes forward_t a second time with the same arguments
Repeat ==
    /\ pc = "done"
    /\ ~repeated
    /\ run' \in forward_t(composer, call.input_ids, call.token_type_ids,
                          call.position_ids, call.input_embeds, call.train)
    /\ repeated' = TRUE
    /\ same' = (run' = run)
    /\ UNCHANGED <<composer, pc, call>>

\* the caller is finished with the result
Return ==
    /\ pc = "done"
    /\ pc' = "idle"
    /\ call' = NoCall
    /\ run' = NoRun
    /\ repeated' = FALSE
    /\ same' = FALSE
    /\ UNCHANGED composer

Next ==
    \/ pc = "idle" /\ \E a \in Calls(composer) : Call(a)
    \/ Repeat
    \/ Return

Spec == Init /\ [][Next]_vars

---------------------------------------------------------------------------
(* Properties.                                                             *)

\* the last call supplied exactly one of input_ids / input_embeds
ExactlyOne == call.input_ids.some # call.input_embeds.some

\* the (batch, seq) shape of the last call's input
CallShape ==
    IF call.input_ids.some THEN <<Len(call.input_ids.value), Len(call.input_ids.value[1])>>
    ELSE <<call.input_embeds.value[1], call.input_embeds.value[2]>>

\* the number of non-padding tokens of row r at positions 1..j
NonPadding(r, j) == Cardinality({ k \in 1..j : r[k] # composer.padding_index })

\* C1: whenever forward_t derives the position ids from the token ids, every
\* padding token gets the padding index and every other token gets the
\* padding index plus the number of non-padding tokens of its row up to and
\* including itself; [[5,7,1,1]] gives [[2,3,1,1]].
C1_PaddingAwareCumulative ==
    (pc = "done" /\ run.scheme = "create_position_ids_from_input_ids") =>
        LET x == call.input_ids.value
            p == run.position_ids
        IN  /\ Len(p) = Len(x)
            /\ \A i \in 1..Len(x) :
                 /\ Len(p[i]) = Len(x[i])
                 /\ \A j \in 1..Len(x[i]) :
                      p[i][j] = IF x[i][j] = composer.padding_index
                                THEN composer.padding_index
                                ELSE composer.padding_index + NonPadding(x[i], j)
            /\ (x = <<<<5, 7, 1, 1>>>> => p = <<<<2, 3, 1, 1>>>>)

\* C1 witness: [[1,5,7,1,9]] was passed alone and the ids [[1,2,3,1,4]] were used
C1_Witness ==
    /\ pc = "done"
    /\ call.input_ids = Some(<<<<1, 5, 7, 1, 9>>>>)
    /\ ~call.position_ids.some
    /\ run.result = "Ok"
    /\ run.scheme = "create_position_ids_from_input_ids"
    /\ run.position_ids = <<<<1, 2, 3, 1, 4>>>>

\* C2: a call with precomputed vectors only, of shape (batch, seq, hidden),
\* uses the position ids padding_index+1 .. padding_index+seq in every row.
C2_SequentialScheme ==
    (pc = "done" /\ call.input_embeds.some /\ ~call.input_ids.some
                 /\ ~call.position_ids.some) =>
        run.position_ids =
            [i \in 1..CallShape[1] |-> [j \in 1..CallShape[2] |->
                composer.padding_index + j]]

\* C3: forward_t returns the error exactly when both or neither of input_ids
\* and input_embeds are given, whatever the other arguments; it then has read
\* no table and produced no output.
C3_ContractViolation ==
    pc = "done" =>
        /\ (run.result = "Err") <=> ~ExactlyOne
        /\ run.result = "Err" => (run.reads = {} /\ run.output = NoOutput)

\* C3 witness: both given, with token types, position ids and train set
C3_Witness ==
    /\ pc = "done"
    /\ call.input_ids.some /\ call.input_embeds.some
    /\ call.token_type_ids.some /\ call.position_ids.some /\ call.train
    /\ run.result = "Err"
    /\ run.reads = {}

\* C4: with explicit position ids no derivation scheme runs, and once the
\* input is resolved the position lookup is made with the ids as supplied.
C4_ExplicitPositionIds ==
    (pc = "done" /\ call.position_ids.some /\ ExactlyOne) =>
        /\ run.scheme \in {"explicit", "none"}
        /\ run.input_shape # <<>> =>
             /\ run.scheme = "explicit"
             /\ run.position_ids = call.position_ids.value
             /\ "position_embeddings" \in run.reads

\* C4 witness: explicit ids equal to the padding index on non-padding tokens
C4_Witness ==
    /\ pc = "done"
    /\ call.input_ids = Some(<<<<5, 5>>>>)
    /\ call.position_ids = Some(<<<<1, 1>>>>)
    /\ run.result = "Ok"
    /\ run.position_ids = <<<<1, 1>>>>
    /\ run.position_ids # create_position_ids_from_input_ids(composer, call.input_ids.value)

\* C5: a call with exactly one of input_ids / input_embeds and no other
\* optional argument yields an output of shape (batch, seq, hidden_size).
C5_OutputShape ==
    (pc = "done" /\ ExactlyOne /\ ~call.token_type_ids.some
                 /\ ~call.position_ids.some) =>
        /\ run.result = "Ok"
        /\ size3(run.output) =
               <<CallShape[1], CallShape[2], composer.layer_norm.normalized_shape[1]>>

\* C6: the token type ids handed to the token type lookup are the argument
\* when it is given, and otherwise zeros of the input's (batch, seq) shape.
C6_TokenTypeIds ==
    (pc = "done" /\ "token_type_embeddings" \in run.reads) =>
        IF call.token_type_ids.some
        THEN run.token_type_ids = call.token_type_ids.value
        ELSE /\ Len(run.token_type_ids) = CallShape[1]
             /\ \A i \in 1..CallShape[1] :
                  /\ Len(run.token_type_ids[i]) = CallShape[2]
                  /\ \A j \in 1..CallShape[2] : run.token_type_ids[i][j] = 0

\* C6 witness: vectors of shape (3, 2, hidden) alone, zeros of shape (3, 2) used
C6_Witness ==
    /\ pc = "done"
    /\ call.input_embeds.some /\ ~call.input_ids.some
    /\ ~call.token_type_ids.some
    /\ CallShape = <<3, 2>>
    /\ run.result = "Ok"
    /\ run.token_type_ids = <<<<0, 0>>, <<0, 0>>, <<0, 0>>>>

\* C7: with train = false a second call with the same arguments returns what
\* the first returned, and the output is the normalised sum of the three
\* lookups with nothing dropped.
C7_EvalDeterministic ==
    (pc = "done" /\ ~call.train) =>
        /\ repeated => same
        /\ run.result = "Ok" =>
             LET base == IF call.input_ids.some
                         THEN embedding_forward(composer.word_embeddings,
                                                call.input_ids.value).value
                         ELSE copy(call.input_embeds.value)
                 pe == embedding_forward(composer.position_embeddings,
                                         run.position_ids).value
                 te == embedding_forward(composer.token_type_embeddings,
                                         run.token_type_ids).value
             IN  run.output =
                     layer_norm_forward(composer.layer_norm,
                                        add(add(base, pe).value, te).value).value

\* C7 witness: an evaluation-mode call on a composer with a positive dropout
\* probability was repeated and returned the same output
C7_Witness ==
    /\ pc = "done"
    /\ ~call.train
    /\ composer.dropout.dropout_prob > 0
    /\ run.result = "Ok"
    /\ repeated /\ same

\* C8 as stated: the error's message is "exactly one of token identifiers or
\* token vectors must be supplied."
C8_SpecMessage ==
    (pc = "done" /\ run.result = "Err") =>
        run.message = "exactly one of token identifiers or token vectors must be supplied."

\* C8 amended: the error carries one fixed message, the same when both and
\* when neither are given: "Only one of input ids or input embeddings may be set".
C8_FixedMessage ==
    (pc = "done" /\ run.result = "Err") =>
        run.message = "Only one of input ids or input embeddings may be set"

\* C8 witness: the error returned when neither is given
C8_Witness ==
    /\ pc = "done"
    /\ ~call.input_ids.some /\ ~call.input_embeds.some
    /\ run.result = "Err"
    /\ run.message = "Only one of input ids or input embeddings may be set"

\* C9: the word table and the position table are both configured with the
\* padding index 1, the composer's padding_index.
C9_SharedPaddingIndex ==
    /\ composer.padding_index = 1
    /\ composer.word_embeddings.padding_idx = composer.padding_index
    /\ composer.position_embeddings.padding_idx = composer.padding_index

\* C10: position ids derived from a token-id batch of sequence length L lie in
\* padding_index .. padding_index + L, the upper end being taken exactly by
\* the last token of a row without padding; they are valid rows of the
\* position table when L <= max_position_embeddings - padding_index - 1, and
\* a row without padding of length L >= max_position_embeddings -
\* padding_index gives an index outside the table, which forward_t does not
\* turn into an error of its own.
C10_DerivedIdRange ==
    (pc = "done" /\ run.scheme = "create_position_ids_from_input_ids") =>
        LET x == call.input_ids.value
            p == run.position_ids
            L == Len(x[1])
            pad == composer.padding_index
            max == composer.position_embeddings.num_embeddings
            NoPadding(i) == \A k \in 1..L : x[i][k] # pad
        IN  /\ \A i \in 1..Len(x) : \A j \in 1..L :
                 /\ pad <= p[i][j] /\ p[i][j] <= pad + L
                 /\ (p[i][j] = pad + L) <=> (j = L /\ NoPadding(i))
            /\ L <= max - pad - 1 =>
                 \A i \in 1..Len(x) : \A j \in 1..L : 0 <= p[i][j] /\ p[i][j] < max
            /\ (L >= max - pad /\ \E i \in 1..Len(x) : NoPadding(i)) =>
                 /\ \E i \in 1..Len(x) : p[i][L] >= max
                 /\ run.result = "Panic"
                 /\ run.output = NoOutput

\* C10 witness: three tokens without padding on a position table of four rows
C10_Witness ==
    /\ pc = "done"
    /\ composer.position_embeddings.num_embeddings = 4
    /\ call.input_ids = Some(<<<<5, 7, 9>>>>)
    /\ ~call.position_ids.some
    /\ run.position_ids = <<<<2, 3, 4>>>>
    /\ run.result = "Panic"

===========================================================================
